---- MODULE Spec2Model ----
(***************************************************************************)
(* A model of pybond/bond/bond_reconcile.py: the reconcile tools of Bond.  *)
(*                                                                         *)
(* One call of ReconcileTool.reconcile is a sequential run over the file   *)
(* system.  The model follows it from one blocking point or file operation *)
(* to the next (pc), for every tool, every no_save value, every reference  *)
(* file, every user input and every outcome of the external merge tool.    *)
(* When a call has returned (pc = "done") its caller goes on (pc = "idle") *)
(* and the next call may start, so the reference file one call leaves      *)
(* behind is the one the next call reads.  Before reconcile is called,     *)
(* reconcile_observations selects the tool by name (pc = "select"); a name *)
(* select does not know ends the call there (pc = "fatal").                *)
(*                                                                         *)
(* Two further specifications take one part on its own: SpecInput the      *)
(* console backend over every menu and input, SpecConcurrent two processes *)
(* in the kdiff3 tool at once over the same temp directory.                *)
(*                                                                         *)
(* Text is modelled at two levels.  File contents and observation lines    *)
(* are sequences of characters, so that writelines (concatenation) and     *)
(* readlines (splitting after each newline) are computed, not assumed to   *)
(* be inverse.  Option labels, user input and path names are strings.      *)
(***************************************************************************)
EXTENDS Integers, Sequences, FiniteSets, TLC

\* The longest list of observation lines a call is given.
MaxLines == 2

\* Python's None, for no_save and for merged_file.
None == "None"

\* The lines that observations are made of: a terminated line and an
\* unterminated one.
LineSet == { <<"a", "\n">>, <<"b">> }

SeqsUpTo(S, n) == UNION { [1..k -> S] : k \in 0..n }

\* The values of the current_lines parameter.
LineLists == SeqsUpTo(LineSet, MaxLines)

\* file.writelines(lines): the lines one after the other, nothing added.
RECURSIVE writelines(_)
writelines(lines) ==
    IF lines = <<>> THEN <<>> ELSE Head(lines) \o writelines(Tail(lines))

\* The position of the first newline of s, or Len(s) when it has none.
RECURSIVE LineEnd(_, _)
LineEnd(s, i) ==
    IF i >= Len(s) \/ s[i] = "\n" THEN i ELSE LineEnd(s, i + 1)

\* A readlines that drops the line ends, as str.splitlines does.
RECURSIVE readlines_without_ends(_)
readlines_without_ends(s) ==
    IF s = <<>> THEN <<>>
    ELSE LET k == LineEnd(s, 1)
         IN  <<SubSeq(s, 1, IF s[k] = "\n" THEN k - 1 ELSE k)>>
             \o readlines_without_ends(SubSeq(s, k + 1, Len(s)))

\* file.readlines(): the content split after each newline, line ends kept.
RECURSIVE readlines(_)
readlines(s) ==
    IF s = <<>> THEN <<>>
    ELSE LET k == LineEnd(s, 1)
         IN  <<SubSeq(s, 1, k)>> \o readlines(SubSeq(s, k + 1, Len(s)))

\* The contents a text file can have.
Contents == { writelines(l) : l \in LineLists }

Absent == [exists |-> FALSE, content |-> <<>>]
File(c) == [exists |-> TRUE, content |-> c]

\* The values of no_save: not given, an empty reason, a reason.
NoSaveValues == { None, "", "crashed" }

\* Python's truth value of no_save, as "if no_save:" tests it.
Truthy(v) == v # None /\ v # ""

ToolNames == { "accept", "abort", "console", "dialog", "kdiff3" }

\* The values of the 'reconcile' setting: not given, a tool's name, or a
\* name that is none.
ReconcileSettings == ToolNames \cup { None, "meld" }

\* The values of the environment variable BOND_RECONCILE: not set (None),
\* a tool's name, or set to a name that is none.
EnvironSettings == ToolNames \cup { None, "meld", "" }

\* What select does with a name it does not know: assert False.
Unrecognized == "AssertionError"

\* os.environ.get('BOND_RECONCILE', 'console').
environ_get(environ, default) == IF environ = None THEN default ELSE environ

\* A select that takes every name it does not know for the console tool.
RECURSIVE select_lenient(_, _)
select_lenient(reconcile_tool_, environ) ==
    IF reconcile_tool_ \in ToolNames THEN reconcile_tool_
    ELSE IF reconcile_tool_ = None
    THEN select_lenient(environ_get(environ, "console"), environ)
    ELSE "console"

\* ReconcileTool.select: the tool of that name; for no name, the tool the
\* environment names, the console tool when it names none.
RECURSIVE select(_, _)
select(reconcile_tool_, environ) ==
    IF reconcile_tool_ \in ToolNames THEN reconcile_tool_
    ELSE IF reconcile_tool_ = None
    THEN select(environ_get(environ, "console"), environ)
    ELSE Unrecognized

\* The reference_file argument of reconcile.
reference_file == "test_reference.json"

TMP_FILE_BASE_NAME == "/tmp/bond_tmp_"

\* The values _random_string can return (eight characters each).
RandomStrings == { "AAAAAAAA", "AAAAAAA9" }

Flavors == { "curr", "ref", "merged" }

_tmp_file_name(random_string, flavor) ==
    TMP_FILE_BASE_NAME \o random_string \o "." \o flavor

TmpPaths == { _tmp_file_name(r, f) : r \in RandomStrings, f \in Flavors }

Paths == { reference_file } \cup TmpPaths

\* What os.system can return for the merge tool: 0, or a nonzero wait status.
ExitCodes == { 0, 256, 512 }

\* A diff that always has its two header lines, also over equal lists.
_compute_diff_with_headers(reference_lines_, current_lines_) ==
    <<[tag |-> "---", text |-> <<>>], [tag |-> "+++", text |-> <<>>]>>
    \o [i \in 1..Len(reference_lines_) |->
           [tag |-> "-", text |-> reference_lines_[i]]]
    \o [i \in 1..Len(current_lines_) |->
           [tag |-> "+", text |-> current_lines_[i]]]

\* difflib.unified_diff(reference_lines, current_lines, 'reference',
\* 'current'): no lines when the two lists are equal, else the two header
\* lines and a hunk.  The hunk is modelled without context lines: every
\* reference line removed, every current line added.
_compute_diff(reference_lines_, current_lines_) ==
    IF reference_lines_ = current_lines_ THEN <<>>
    ELSE <<[tag |-> "---", text |-> <<>>], [tag |-> "+++", text |-> <<>>],
           [tag |-> "@@", text |-> <<>>]>>
         \o [i \in 1..Len(reference_lines_) |->
                [tag |-> "-", text |-> reference_lines_[i]]]
         \o [i \in 1..Len(current_lines_) |->
                [tag |-> "+", text |-> current_lines_[i]]]

\* Python's "is not None" for the value invoke_tool returns.
NoLines == [some |-> FALSE, lines |-> <<>>]
Lines(l) == [some |-> TRUE, lines |-> l]

(***************************************************************************)
(* The user interaction port                                               *)
(***************************************************************************)

\* What a user can type at the console prompt.
RawInputs ==
    { "", "k", "d", "e", "c", "o", "y", "n", "x", "K",
      "kdiff3", "diff", "errors", "continue", "observations", "yes", "no",
      "maybe", "ye", "kd", "Yes" }

Last(options) == options[Len(options)]

\* next((opt for opt, char in zip(...) if cond), default): the first match.
FirstOr(options, matching, default) ==
    IF matching = {} THEN default
    ELSE options[CHOOSE i \in matching : \A j \in matching : i <= j]

\* A console backend whose default is the first option, not the last.
_get_user_input_console_first(options, single_char_options, raw) ==
    IF Len(raw) = 0 THEN options[1]
    ELSE IF Len(raw) = 1
    THEN FirstOr(options,
                 { i \in DOMAIN options \cap DOMAIN single_char_options :
                       single_char_options[i] = raw },
                 options[1])
    ELSE FirstOr(options, { i \in DOMAIN options : options[i] = raw },
                 options[1])

\* A console backend that returns what was typed when it is no option.
_get_user_input_console_echo(options, single_char_options, raw) ==
    IF Len(raw) = 0 THEN Last(options)
    ELSE IF Len(raw) = 1
    THEN FirstOr(options,
                 { i \in DOMAIN options \cap DOMAIN single_char_options :
                       single_char_options[i] = raw },
                 raw)
    ELSE FirstOr(options, { i \in DOMAIN options : options[i] = raw }, raw)

\* _get_user_input_console from the raw_input answer on: the option chosen.
_get_user_input_console(options, single_char_options, raw) ==
    IF Len(raw) = 0 THEN Last(options)
    ELSE IF Len(raw) = 1
    THEN FirstOr(options,
                 { i \in DOMAIN options \cap DOMAIN single_char_options :
                       single_char_options[i] = raw },
                 Last(options))
    ELSE FirstOr(options, { i \in DOMAIN options : options[i] = raw },
                 Last(options))

\* OptionDialog.create_dialog_get_value: the dialog returns one of the
\* options it shows.
OptionDialog_create_dialog_get_value(options) ==
    { options[i] : i \in DOMAIN options }

_get_user_input_dialog(options) ==
    OptionDialog_create_dialog_get_value(options)

\* _get_user_input: the console when stdin is a terminal, else the dialog.
\* The set of answers it can return.
_get_user_input(options, single_char_options) ==
    { _get_user_input_console(options, single_char_options, raw) :
          raw \in RawInputs }
    \cup _get_user_input_dialog(options)

\* An input the console backend does not recognise among the options: the
\* empty line, one character that is no shortcut, or a longer word that is
\* no label (the three branches of lines 93-101 that take options[-1]).
Malformed(options, single_char_options, raw) ==
    \/ Len(raw) = 0
    \/ /\ Len(raw) = 1
       /\ \A i \in DOMAIN single_char_options :
              single_char_options[i] # raw
    \/ /\ Len(raw) > 1
       /\ \A i \in DOMAIN options : options[i] # raw

\* How an answer of the port can have come about: TRUE when an input the
\* console backend did not recognise gives it, FALSE when a recognised
\* input or the dialog gives it.
ByDefault(options, single_char_options, answer, console) ==
    { Malformed(options, single_char_options, raw) :
          raw \in { r \in RawInputs :
                       /\ console
                       /\ _get_user_input_console(
                              options, single_char_options, r) = answer } }
    \cup { FALSE : o \in { a \in _get_user_input_dialog(options) :
                              a = answer } }

\* The option tuples the tools pass to the port, each with its shortcuts.
OBSERVATIONS_NO_SAVE ==
    [options |-> <<"kdiff3", "diff", "errors", "continue">>,
     single_char_opts |-> <<"k", "d", "e", "c">>]

\* A menu of the observations whose default accepts.
OBSERVATIONS_SAVE_yes_last ==
    [options |-> <<"kdiff3", "diff", "no", "yes">>,
     single_char_opts |-> <<"k", "d", "n", "y">>]

OBSERVATIONS_SAVE ==
    [options |-> <<"kdiff3", "diff", "yes", "no">>,
     single_char_opts |-> <<"k", "d", "y", "n">>]

DIFF_NO_SAVE ==
    [options |-> <<"kdiff3", "observations", "errors", "continue">>,
     single_char_opts |-> <<"k", "o", "e", "c">>]
DIFF_SAVE ==
    [options |-> <<"kdiff3", "observations", "yes", "no">>,
     single_char_opts |-> <<"k", "o", "y", "n">>]
ERRORS ==
    [options |-> <<"kdiff3", "observations", "diff", "continue">>,
     single_char_opts |-> <<"k", "o", "d", "c">>]
START_KDIFF3 ==
    [options |-> <<"yes", "no">>, single_char_opts |-> <<"y", "n">>]
ACKNOWLEDGE ==
    [options |-> <<"continue">>, single_char_opts |-> <<"c">>]

Menus ==
    { OBSERVATIONS_NO_SAVE, OBSERVATIONS_SAVE, DIFF_NO_SAVE, DIFF_SAVE,
      ERRORS, START_KDIFF3, ACKNOWLEDGE }

NoIO == [menu |-> ACKNOWLEDGE, raw |-> "", answered |-> FALSE, answer |-> ""]

\* No other process is in ReconcileToolKdiff3.invoke_tool.
NoPeer ==
    [pc |-> "off", current_file |-> "", reference_file |-> "",
     merged_file |-> ""]

VARIABLES
    fs,               \* the file system: path -> Absent or File(content)
    pc,               \* where the call stands
    tool,             \* the reconcile tool selected
    current_lines,    \* reconcile's argument
    no_save,          \* reconcile's argument
    reference_lines,  \* reconcile's local
    unified_diff,     \* reconcile's local
    merged_lines,     \* what invoke_tool returned
    response,         \* the console tool's state
    k_response,       \* kdiff3 tool: the answer to "Still want to start?"
    current_file,     \* kdiff3 tool: the temp file of the current lines
    k_reference_file, \* kdiff3 tool: the temp file of the reference lines
    merged_file,      \* kdiff3 tool: "unbound", None or the merged temp file
    code,             \* kdiff3 tool: what _invoke_command returned
    ret,              \* kdiff3 tool: the value its return statement gave
    exc,              \* the exception propagating, or "none"
    written,          \* commit: how many lines writelines has written
    result,           \* "True" or "False" as reconcile returned, "raised"
                      \* when an exception left it, "none" while it runs
    ref0,             \* the reference file when the call started
    invoked,          \* the invoke_tool methods entered in this call
    prompts,          \* the option tuples the user was asked in this call
    commands,         \* the merge tool runs of this call, in order
    shown,            \* the kinds of message printed in this call
    interrupted,      \* an I/O error or interrupt was raised in this call
    defaulted,        \* the last choice asked of the user fell to the default
    io,               \* the console backend on its own: input and answer
    reconcile_tool,   \* select's argument, settings.get('reconcile')
    BOND_RECONCILE,   \* the environment variable, None when it is not set
    last_saved,       \* between calls: the lines the call before saved
    again,            \* current_lines are the lines the call before saved
    peer              \* another process in ReconcileToolKdiff3.invoke_tool

vars ==
    <<fs, pc, tool, current_lines, no_save, reference_lines, unified_diff,
      merged_lines, response, k_response, current_file, k_reference_file,
      merged_file, code, ret, exc, written, result, ref0, invoked, prompts,
      commands, shown, interrupted, defaulted, io, reconcile_tool,
      BOND_RECONCILE, last_saved, again, peer>>

\* What no step of reconcile changes: the console backend on its own,
\* select's argument and the environment, the call before, and the other
\* process.
outside ==
    <<io, reconcile_tool, BOND_RECONCILE, last_saved, again, peer>>

callVars == <<tool, current_lines, no_save, ref0>>
kdiff3Locals ==
    <<k_response, current_file, k_reference_file, merged_file, code, ret>>
history == <<invoked, prompts, commands, shown, interrupted, defaulted>>

isfile(path) == fs[path].exists
unlink(path) == [fs EXCEPT ![path] = Absent]

\* The initial values of everything but the file system.
Fresh ==
    /\ pc = "idle"
    /\ tool = "accept"
    /\ current_lines = <<>>
    /\ no_save = None
    /\ reference_lines = <<>>
    /\ unified_diff = <<>>
    /\ merged_lines = NoLines
    /\ response = ""
    /\ k_response = ""
    /\ current_file = ""
    /\ k_reference_file = ""
    /\ merged_file = "unbound"
    /\ code = 0
    /\ ret = NoLines
    /\ exc = "none"
    /\ written = 0
    /\ result = "none"
    /\ ref0 = fs[reference_file]
    /\ invoked = {}
    /\ prompts = {}
    /\ commands = <<>>
    /\ shown = {}
    /\ interrupted = FALSE
    /\ defaulted = FALSE
    /\ reconcile_tool = None
    /\ BOND_RECONCILE = None
    /\ last_saved = NoLines
    /\ again = FALSE
    /\ peer = NoPeer

Init ==
    /\ fs \in { [p \in Paths |-> IF p = reference_file THEN f ELSE Absent] :
                   f \in { Absent } \cup { File(c) : c \in Contents } }
    /\ Fresh
    /\ io = NoIO

(***************************************************************************)
(* ReconcileTool.reconcile                                                 *)
(***************************************************************************)

\* reconcile_observations is called: its arguments, the setting and the
\* environment.
Call ==
    /\ pc = "idle"
    /\ \E c \in LineLists, n \in NoSaveValues :
          /\ current_lines' = c
          /\ no_save' = n
          /\ again' = (last_saved = Lines(c))
    /\ reconcile_tool' \in ReconcileSettings
    /\ BOND_RECONCILE' \in EnvironSettings
    /\ last_saved' = NoLines
    /\ pc' = "select"
    /\ ref0' = fs[reference_file]
    /\ UNCHANGED <<fs, tool, reference_lines, unified_diff, merged_lines,
                   response, kdiff3Locals, exc, written, result, history, io,
                   peer>>

\* Line 447, ReconcileTool.select: the tool is selected and its reconcile
\* is called (lines 448-451), or the assertion of line 57 fails.  The name
\* and the environment are not looked at again in the call.
Select ==
    /\ pc = "select"
    /\ LET selected == select(reconcile_tool, BOND_RECONCILE)
       IN  IF selected = Unrecognized
           THEN /\ pc' = "fatal"
                /\ result' = "raised"
                /\ exc' = "AssertionError"
                /\ UNCHANGED <<tool, reconcile_tool, BOND_RECONCILE>>
           ELSE /\ tool' = selected
                /\ pc' = "reconcile"
                /\ reconcile_tool' = None
                /\ BOND_RECONCILE' = None
                /\ UNCHANGED <<result, exc>>
    /\ UNCHANGED <<fs, current_lines, no_save, ref0, reference_lines,
                   unified_diff, merged_lines, response, kdiff3Locals,
                   written, history, io, last_saved, again, peer>>

\* The caller has the result, or the exception; nothing of the call is
\* left but the files and, for the next call, the lines it saved.
Finish ==
    /\ pc \in { "done", "fatal" }
    /\ pc' = "idle"
    /\ tool' = "accept"
    /\ current_lines' = <<>>
    /\ no_save' = None
    /\ reference_lines' = <<>>
    /\ unified_diff' = <<>>
    /\ merged_lines' = NoLines
    /\ response' = ""
    /\ k_response' = ""
    /\ current_file' = ""
    /\ k_reference_file' = ""
    /\ merged_file' = "unbound"
    /\ code' = 0
    /\ ret' = NoLines
    /\ exc' = "none"
    /\ written' = 0
    /\ result' = "none"
    /\ ref0' = fs[reference_file]
    /\ invoked' = {}
    /\ prompts' = {}
    /\ commands' = <<>>
    /\ shown' = {}
    /\ interrupted' = FALSE
    /\ defaulted' = FALSE
    /\ reconcile_tool' = None
    /\ BOND_RECONCILE' = None
    /\ last_saved' = IF result = "True" /\ "saving" \in shown
                     THEN merged_lines ELSE NoLines
    /\ again' = FALSE
    /\ UNCHANGED <<fs, io, peer>>

\* reconcile returns v.
Return(v) ==
    /\ pc' = "done"
    /\ result' = v

\* An exception leaves reconcile.
Raise(e) ==
    /\ pc' = "done"
    /\ result' = "raised"
    /\ exc' = e

\* Lines 193-206: read the reference file, compute the diff, return True
\* when there is none.
ReadAndDiff ==
    /\ pc = "reconcile"
    /\ LET lines == IF isfile(reference_file)
                    THEN readlines(fs[reference_file].content)
                    ELSE <<>>
           diff == _compute_diff(lines, current_lines)
       IN  /\ reference_lines' = lines
           /\ unified_diff' = diff
           /\ shown' = IF isfile(reference_file) THEN shown
                       ELSE shown \cup { "warning" }
           /\ IF Len(diff) = 0
              THEN Return("True")
              ELSE /\ pc' = "invoke_tool"
                   /\ result' = result
    /\ UNCHANGED <<fs, callVars, merged_lines, response, kdiff3Locals, exc,
                   written, invoked, prompts, commands,
                   interrupted, defaulted,
                   outside>>

(***************************************************************************)
(* ReconcileToolAbort, ReconcileToolAccept                                 *)
(***************************************************************************)

\* An abort tool that returns current_lines, as the accept tool does.
ReconcileToolAbort_returns_lines ==
    /\ pc = "invoke_tool"
    /\ tool = "abort"
    /\ invoked' = invoked \cup { "abort" }
    /\ shown' = shown \cup { "aborting" }
    /\ merged_lines' = Lines(current_lines)
    /\ pc' = "returned"
    /\ UNCHANGED <<fs, callVars, reference_lines, unified_diff, response,
                   kdiff3Locals, exc, written, result, prompts, commands,
                   interrupted, defaulted,
                   outside>>

\* Lines 256-267: print the diff (unless no_save) and the notice; None.
ReconcileToolAbort_invoke_tool ==
    /\ pc = "invoke_tool"
    /\ tool = "abort"
    /\ invoked' = invoked \cup { "abort" }
    /\ shown' = shown \cup (IF Truthy(no_save) THEN {} ELSE { "diff" })
                      \cup { "aborting" }
    /\ merged_lines' = NoLines
    /\ pc' = "returned"
    /\ UNCHANGED <<fs, callVars, reference_lines, unified_diff, response,
                   kdiff3Locals, exc, written, result, prompts, commands,
                   interrupted, defaulted,
                   outside>>

\* An accept tool that prints nothing.
ReconcileToolAccept_prints_nothing ==
    /\ pc = "invoke_tool"
    /\ tool = "accept"
    /\ invoked' = invoked \cup { "accept" }
    /\ merged_lines' = Lines(current_lines)
    /\ pc' = "returned"
    /\ UNCHANGED <<fs, callVars, reference_lines, unified_diff, response,
                   kdiff3Locals, exc, written, result, prompts, commands,
                   shown, interrupted, defaulted,
                   outside>>

\* Lines 275-290: print the diff and, unless no_save, the notice;
\* current_lines.
ReconcileToolAccept_invoke_tool ==
    /\ pc = "invoke_tool"
    /\ tool = "accept"
    /\ invoked' = invoked \cup { "accept" }
    /\ shown' = shown \cup { "diff" }
                      \cup (IF Truthy(no_save) THEN { "failures" }
                                               ELSE { "accepting" })
    /\ merged_lines' = Lines(current_lines)
    /\ pc' = "returned"
    /\ UNCHANGED <<fs, callVars, reference_lines, unified_diff, response,
                   kdiff3Locals, exc, written, result, prompts, commands,
                   interrupted, defaulted,
                   outside>>

(***************************************************************************)
(* reconcile, after invoke_tool: lines 214-227                             *)
(***************************************************************************)

\* Lines 214-220 and 226-227: False when the tool returned None; True
\* without saving under no_save; else go on to replace the reference file.
AfterInvokeTool ==
    /\ pc = "returned"
    /\ IF merged_lines.some
       THEN IF Truthy(no_save)
            THEN /\ shown' = shown \cup { "not_saving" }
                 /\ Return("True")
            ELSE /\ shown' = shown \cup { "saving" }
                 /\ pc' = "commit_unlink"
                 /\ result' = result
       ELSE /\ shown' = shown
            /\ Return("False")
    /\ UNCHANGED <<fs, callVars, reference_lines, unified_diff, merged_lines,
                   response, kdiff3Locals, exc, written, invoked, prompts,
                   commands, interrupted, defaulted,
                   outside>>

\* Lines 221-222: delete the reference file when there is one.
CommitUnlink ==
    /\ pc = "commit_unlink"
    /\ fs' = IF isfile(reference_file) THEN unlink(reference_file) ELSE fs
    /\ pc' = "commit_open"
    /\ UNCHANGED <<callVars, reference_lines, unified_diff, merged_lines,
                   response, kdiff3Locals, exc, written, result,
                   history, outside>>

\* Line 223: open(reference_file, 'w') creates the file, empty.
CommitOpen ==
    /\ pc = "commit_open"
    /\ fs' = [fs EXCEPT ![reference_file] = File(<<>>)]
    /\ written' = 0
    /\ pc' = "commit_write"
    /\ UNCHANGED <<callVars, reference_lines, unified_diff, merged_lines,
                   response, kdiff3Locals, exc, result, history, outside>>

\* A commit that writes current_lines, not what the tool returned.
CommitWrite_current_lines ==
    /\ pc = "commit_write"
    /\ written < Len(merged_lines.lines)
    /\ fs' = [fs EXCEPT ![reference_file] =
                  File(@.content \o
                       (IF written < Len(current_lines)
                        THEN current_lines[written + 1] ELSE <<>>))]
    /\ written' = written + 1
    /\ UNCHANGED <<pc, callVars, reference_lines, unified_diff, merged_lines,
                   response, kdiff3Locals, exc, result, history, outside>>

\* Line 224: writelines writes the next line of merged_lines.
CommitWrite ==
    /\ pc = "commit_write"
    /\ written < Len(merged_lines.lines)
    /\ fs' = [fs EXCEPT ![reference_file] =
                  File(@.content \o merged_lines.lines[written + 1])]
    /\ written' = written + 1
    /\ UNCHANGED <<pc, callVars, reference_lines, unified_diff, merged_lines,
                   response, kdiff3Locals, exc, result, history, outside>>

\* Lines 224-225: every line is written; the file is closed; True.
CommitReturn ==
    /\ pc = "commit_write"
    /\ written = Len(merged_lines.lines)
    /\ Return("True")
    /\ UNCHANGED <<fs, callVars, reference_lines, unified_diff, merged_lines,
                   response, kdiff3Locals, exc, written, history, outside>>

(***************************************************************************)
(* ReconcileToolConsole, ReconcileToolDialog                               *)
(***************************************************************************)

\* _input: the console tool asks through _get_user_input, the dialog tool
\* through _get_user_input_dialog.  The set of answers it can return.
_input(menu) ==
    IF tool = "dialog"
    THEN _get_user_input_dialog(menu.options)
    ELSE _get_user_input(menu.options, menu.single_char_opts)

\* A loop that starts in the state diff whatever no_save is.
ReconcileToolConsole_starts_in_diff ==
    /\ pc = "invoke_tool"
    /\ tool \in { "console", "dialog" }
    /\ invoked' = invoked \cup { "console" }
    /\ response' = "diff"
    /\ pc' = "console"
    /\ UNCHANGED <<fs, callVars, reference_lines, unified_diff, merged_lines,
                   kdiff3Locals, exc, written, result, prompts, commands,
                   shown, interrupted, defaulted,
                   outside>>

\* Line 306: the state the loop starts in.
ReconcileToolConsole_invoke_tool ==
    /\ pc = "invoke_tool"
    /\ tool \in { "console", "dialog" }
    /\ invoked' = invoked \cup { "console" }
    /\ response' = IF Truthy(no_save) THEN "observations" ELSE "diff"
    /\ pc' = "console"
    /\ UNCHANGED <<fs, callVars, reference_lines, unified_diff, merged_lines,
                   kdiff3Locals, exc, written, result, prompts, commands,
                   shown, interrupted, defaulted,
                   outside>>

\* One prompt of the loop: the menu is asked and the answer is the next
\* state, or the prompt is interrupted (end of input, Ctrl-C).
ConsoleAsk(menu, content) ==
    /\ pc = "console"
    /\ prompts' = prompts \cup { menu }
    /\ shown' = shown \cup { content }
    /\ \/ /\ \E answer \in _input(menu) :
                /\ response' = answer
                /\ defaulted' \in ByDefault(menu.options,
                                            menu.single_char_opts, answer,
                                            tool # "dialog")
          /\ UNCHANGED <<pc, exc, result, interrupted>>
       \/ /\ Raise("EOFError")
          /\ interrupted' = TRUE
          /\ defaulted' = FALSE
          /\ UNCHANGED response
    /\ UNCHANGED <<fs, callVars, reference_lines, unified_diff, merged_lines,
                   kdiff3Locals, written, invoked, commands, outside>>

\* Lines 309-320: the current observations are shown.
ConsoleObservations ==
    /\ response = "observations"
    /\ ConsoleAsk(IF Truthy(no_save) THEN OBSERVATIONS_NO_SAVE
                                     ELSE OBSERVATIONS_SAVE,
                  "observations")

\* Lines 321-332: the diff is shown.
ConsoleDiff ==
    /\ response = "diff"
    /\ ConsoleAsk(IF Truthy(no_save) THEN DIFF_NO_SAVE ELSE DIFF_SAVE,
                  "diff")

\* Lines 333-336: no_save, the reason, is shown.
ConsoleErrors ==
    /\ response = "errors"
    /\ ConsoleAsk(ERRORS, "errors")

\* A loop whose state continue returns current_lines, as yes does.
ConsoleReturn_continue_accepts ==
    /\ pc = "console"
    /\ response \notin { "observations", "diff", "errors", "kdiff3" }
    /\ CASE response \in { "yes", "continue" } ->
               /\ merged_lines' = Lines(current_lines)
               /\ shown' = shown \cup { "accepting" }
               /\ pc' = "returned"
               /\ UNCHANGED <<exc, result>>
         [] response = "no" ->
               /\ merged_lines' = NoLines
               /\ shown' = shown \cup { "rejecting" }
               /\ pc' = "returned"
               /\ UNCHANGED <<exc, result>>
         [] OTHER ->
               /\ Raise("AssertionError")
               /\ UNCHANGED <<merged_lines, shown>>
    /\ UNCHANGED <<fs, callVars, reference_lines, unified_diff, response,
                   kdiff3Locals, written, invoked, prompts, commands,
                   interrupted, defaulted,
                   outside>>

\* Lines 340-349: yes returns current_lines, no and continue return None,
\* anything else fails the assertion.
ConsoleReturn ==
    /\ pc = "console"
    /\ response \notin { "observations", "diff", "errors", "kdiff3" }
    /\ CASE response = "yes" ->
               /\ merged_lines' = Lines(current_lines)
               /\ shown' = shown \cup { "accepting" }
               /\ pc' = "returned"
               /\ UNCHANGED <<exc, result>>
         [] response = "no" ->
               /\ merged_lines' = NoLines
               /\ shown' = shown \cup { "rejecting" }
               /\ pc' = "returned"
               /\ UNCHANGED <<exc, result>>
         [] response = "continue" ->
               /\ merged_lines' = NoLines
               /\ pc' = "returned"
               /\ UNCHANGED <<exc, result, shown>>
         [] OTHER ->
               /\ Raise("AssertionError")
               /\ UNCHANGED <<merged_lines, shown>>
    /\ UNCHANGED <<fs, callVars, reference_lines, unified_diff, response,
                   kdiff3Locals, written, invoked, prompts, commands,
                   interrupted, defaulted,
                   outside>>

(***************************************************************************)
(* ReconcileToolKdiff3                                                     *)
(***************************************************************************)

\* Lines 376-377: the names of the two temp files.  The kdiff3 tool is
\* entered as the tool selected, or from the console tool's state kdiff3
\* (lines 337-339), which returns what it returns.
ReconcileToolKdiff3_invoke_tool ==
    /\ \/ pc = "invoke_tool" /\ tool = "kdiff3"
       \/ pc = "console" /\ response = "kdiff3"
    /\ invoked' = invoked \cup { "kdiff3" }
    /\ \E r1 \in RandomStrings, r2 \in RandomStrings :
          /\ current_file' = _tmp_file_name(r1, "curr")
          /\ k_reference_file' = _tmp_file_name(r2, "ref")
    /\ merged_file' = "unbound"
    /\ k_response' = ""
    /\ code' = 0
    /\ ret' = NoLines
    /\ pc' = "k_write_current"
    /\ UNCHANGED <<fs, callVars, reference_lines, unified_diff, merged_lines,
                   response, exc, written, result, prompts, commands, shown,
                   interrupted, defaulted,
                   outside>>

\* with open(path, 'w') as f: f.writelines(lines), and what it leaves when
\* it fails: no file (open failed) or the lines written so far.
WriteOutcomes(path, lines) ==
    { [ok |-> TRUE, fs |-> [fs EXCEPT ![path] = File(writelines(lines))]],
      [ok |-> FALSE, fs |-> fs] }
    \cup { [ok |-> FALSE,
            fs |-> [fs EXCEPT ![path] =
                       File(writelines(SubSeq(lines, 1, k)))]] :
              k \in 0..(Len(lines) - 1) }

\* One of the two writes of lines 379-382.
KWrite(path, lines, next) ==
    \E o \in WriteOutcomes(path, lines) :
       /\ fs' = o.fs
       /\ IF o.ok
          THEN /\ pc' = next
               /\ UNCHANGED <<exc, interrupted>>
          ELSE /\ pc' = "k_finally"
               /\ exc' = "IOError"
               /\ interrupted' = TRUE

\* Lines 379-380.
KWriteCurrent ==
    /\ pc = "k_write_current"
    /\ KWrite(current_file, current_lines, "k_write_reference")
    /\ UNCHANGED <<callVars, reference_lines, unified_diff, merged_lines,
                   response, kdiff3Locals, written, result, invoked, prompts,
                   commands, shown, defaulted,
                   outside>>

\* Lines 381-382.
KWriteReference ==
    /\ pc = "k_write_reference"
    /\ KWrite(k_reference_file, reference_lines, "k_mode")
    /\ UNCHANGED <<callVars, reference_lines, unified_diff, merged_lines,
                   response, kdiff3Locals, written, result, invoked, prompts,
                   commands, shown, defaulted,
                   outside>>

\* Lines 384-385 and 401-408: merged_file is bound; under no_save the user
\* is asked first, else the merged temp file is named.
KMode ==
    /\ pc = "k_mode"
    /\ IF Truthy(no_save)
       THEN /\ merged_file' = None
            /\ pc' = "k_ask"
       ELSE /\ \E r3 \in RandomStrings :
                  merged_file' = _tmp_file_name(r3, "merged")
            /\ pc' = "k_merge"
    /\ UNCHANGED <<fs, callVars, reference_lines, unified_diff, merged_lines,
                   response, k_response, current_file, k_reference_file, code,
                   ret, exc, written, result, history, outside>>

\* Lines 386-391: "Still want to start kdiff3?"; any answer but yes
\* returns None.
KAsk ==
    /\ pc = "k_ask"
    /\ prompts' = prompts \cup { START_KDIFF3 }
    /\ shown' = shown \cup { "errors" }
    /\ \/ /\ \E answer \in _get_user_input(START_KDIFF3.options,
                                           START_KDIFF3.single_char_opts) :
                /\ k_response' = answer
                /\ defaulted' \in ByDefault(START_KDIFF3.options,
                                            START_KDIFF3.single_char_opts,
                                            answer, TRUE)
                /\ IF answer # "yes"
                   THEN /\ ret' = NoLines
                        /\ pc' = "k_finally"
                   ELSE /\ ret' = ret
                        /\ pc' = "k_view"
          /\ UNCHANGED <<exc, interrupted>>
       \/ /\ pc' = "k_finally"
          /\ exc' = "EOFError"
          /\ interrupted' = TRUE
          /\ defaulted' = FALSE
          /\ UNCHANGED <<k_response, ret>>
    /\ UNCHANGED <<fs, callVars, reference_lines, unified_diff, merged_lines,
                   response, current_file, k_reference_file, merged_file,
                   code, written, result, invoked, commands, outside>>

\* A run of the merge tool, for the record: its mode, its exit code (-1
\* when it was interrupted and returned none) and the output file it left.
Command(mode, exit_code, output) ==
    [mode |-> mode, code |-> exit_code, merged |-> output]

\* Lines 393-399: kdiff3 without -m and without -o; None whatever it
\* returns.
KView ==
    /\ pc = "k_view"
    /\ \/ /\ \E c \in ExitCodes :
                /\ commands' = Append(commands, Command("view", c, Absent))
                /\ ret' = NoLines
          /\ UNCHANGED <<exc, interrupted>>
       \/ /\ commands' = Append(commands, Command("view", -1, Absent))
          /\ exc' = "KeyboardInterrupt"
          /\ interrupted' = TRUE
          /\ UNCHANGED ret
    /\ pc' = "k_finally"
    /\ UNCHANGED <<fs, callVars, reference_lines, unified_diff, merged_lines,
                   response, k_response, current_file, k_reference_file,
                   merged_file, code, written, result, invoked, prompts,
                   shown, defaulted,
                   outside>>

\* What kdiff3 -m -o leaves at the output path: exit code 0 says the merge
\* was saved, with whatever the user made of it; a failed or interrupted
\* run may leave an output file, which is never read.
ToolOutputs(saved) ==
    IF saved THEN { File(m) : m \in Contents }
    ELSE { fs[merged_file], File(<<>>) }

\* Line 410: kdiff3 -m ... -o merged_file runs; its exit code.
KMerge ==
    /\ pc = "k_merge"
    /\ \/ /\ \E c \in ExitCodes : \E out \in ToolOutputs(c = 0) :
                /\ commands' = Append(commands, Command("merge", c, out))
                /\ code' = c
                /\ fs' = [fs EXCEPT ![merged_file] = out]
          /\ pc' = "k_merged"
          /\ UNCHANGED <<exc, interrupted>>
       \/ /\ \E out \in ToolOutputs(FALSE) :
                /\ commands' = Append(commands, Command("merge", -1, out))
                /\ fs' = [fs EXCEPT ![merged_file] = out]
          /\ pc' = "k_finally"
          /\ exc' = "KeyboardInterrupt"
          /\ interrupted' = TRUE
          /\ UNCHANGED code
    /\ UNCHANGED <<callVars, reference_lines, unified_diff, merged_lines,
                   response, k_response, current_file, k_reference_file,
                   merged_file, ret, written, result, invoked, prompts,
                   shown, defaulted,
                   outside>>

\* A merge whose exit code is not looked at: the merged file is read
\* whenever there is one.
KMerged_ignores_code ==
    /\ pc = "k_merged"
    /\ IF isfile(merged_file)
       THEN /\ ret' = Lines(readlines(fs[merged_file].content))
            /\ shown' = shown \cup { "merge_successful" }
       ELSE /\ ret' = NoLines
            /\ shown' = shown \cup { "merge_unsuccessful" }
    /\ pc' = "k_acknowledge"
    /\ UNCHANGED <<fs, callVars, reference_lines, unified_diff, merged_lines,
                   response, k_response, current_file, k_reference_file,
                   merged_file, code, exc, written, result, invoked, prompts,
                   commands, interrupted, defaulted,
                   outside>>

\* Lines 411-419: on exit code 0 the merged file is read.
KMerged ==
    /\ pc = "k_merged"
    /\ IF code = 0
       THEN IF isfile(merged_file)
            THEN /\ ret' = Lines(readlines(fs[merged_file].content))
                 /\ shown' = shown \cup { "merge_successful" }
                 /\ pc' = "k_acknowledge"
                 /\ exc' = exc
            ELSE /\ pc' = "k_finally"
                 /\ exc' = "IOError"
                 /\ UNCHANGED <<ret, shown>>
       ELSE /\ ret' = NoLines
            /\ shown' = shown \cup { "merge_unsuccessful" }
            /\ pc' = "k_acknowledge"
            /\ exc' = exc
    /\ UNCHANGED <<fs, callVars, reference_lines, unified_diff, merged_lines,
                   response, k_response, current_file, k_reference_file,
                   merged_file, code, written, result, invoked, prompts,
                   commands, interrupted, defaulted,
                   outside>>

\* A kdiff3 tool that returns ret without asking for the acknowledgement.
KAcknowledge_skipped ==
    /\ pc = "k_acknowledge"
    /\ pc' = "k_finally"
    /\ UNCHANGED <<fs, callVars, reference_lines, unified_diff, merged_lines,
                   response, kdiff3Locals, exc, written, result, history,
                   outside>>

\* Lines 421-422: the status message is acknowledged; ret is returned.
KAcknowledge ==
    /\ pc = "k_acknowledge"
    /\ prompts' = prompts \cup { ACKNOWLEDGE }
    /\ \/ /\ \E answer \in _get_user_input(ACKNOWLEDGE.options,
                                           ACKNOWLEDGE.single_char_opts) :
                TRUE
          /\ UNCHANGED <<exc, interrupted>>
       \/ /\ exc' = "EOFError"
          /\ interrupted' = TRUE
    /\ pc' = "k_finally"
    /\ UNCHANGED <<fs, callVars, reference_lines, unified_diff, merged_lines,
                   response, kdiff3Locals, written, result, invoked, commands,
                   shown, defaulted,
                   outside>>

\* A finally clause that forgets the merged file.
Cleanup_without_merged ==
    LET fs1 == IF fs[current_file].exists
               THEN [fs EXCEPT ![current_file] = Absent] ELSE fs
    IN  IF fs1[k_reference_file].exists
        THEN [fs1 EXCEPT ![k_reference_file] = Absent] ELSE fs1

\* The file system after the finally clause, lines 424-429.
Cleanup ==
    LET fs1 == IF fs[current_file].exists
               THEN [fs EXCEPT ![current_file] = Absent] ELSE fs
        fs2 == IF fs1[k_reference_file].exists
               THEN [fs1 EXCEPT ![k_reference_file] = Absent] ELSE fs1
    IN  IF merged_file \in { "unbound", None } THEN fs2
        ELSE IF fs2[merged_file].exists
        THEN [fs2 EXCEPT ![merged_file] = Absent] ELSE fs2

\* Lines 423-429, then the return or the exception goes on.  merged_file
\* is unbound when a write of lines 379-382 failed: line 428 then raises
\* UnboundLocalError in place of the exception under way.
KFinally ==
    /\ pc = "k_finally"
    /\ fs' = Cleanup
    /\ LET e == IF merged_file = "unbound" THEN "UnboundLocalError" ELSE exc
       IN  IF e # "none"
           THEN /\ Raise(e)
                /\ UNCHANGED merged_lines
           ELSE /\ merged_lines' = ret
                /\ pc' = "returned"
                /\ UNCHANGED <<exc, result>>
    /\ current_file' = ""
    /\ k_reference_file' = ""
    /\ merged_file' = "unbound"
    /\ UNCHANGED <<callVars, reference_lines, unified_diff, response,
                   k_response, code, ret, written, history, outside>>

Next ==
    \/ Call
    \/ Select
    \/ Finish
    \/ ReadAndDiff
    \/ ReconcileToolAbort_invoke_tool
    \/ ReconcileToolAccept_invoke_tool
    \/ ReconcileToolConsole_invoke_tool
    \/ ConsoleObservations
    \/ ConsoleDiff
    \/ ConsoleErrors
    \/ ConsoleReturn
    \/ ReconcileToolKdiff3_invoke_tool
    \/ KWriteCurrent
    \/ KWriteReference
    \/ KMode
    \/ KAsk
    \/ KView
    \/ KMerge
    \/ KMerged
    \/ KAcknowledge
    \/ KFinally
    \/ AfterInvokeTool
    \/ CommitUnlink
    \/ CommitOpen
    \/ CommitWrite
    \/ CommitReturn

Spec == Init /\ [][Next]_vars

(***************************************************************************)
(* The console backend on its own: every menu of the tools with every raw  *)
(* input.                                                                  *)
(***************************************************************************)

InitInput ==
    /\ fs = [p \in Paths |-> Absent]
    /\ Fresh
    /\ io \in { [menu |-> m, raw |-> r, answered |-> FALSE, answer |-> ""] :
                   m \in Menus, r \in RawInputs }

\* Lines 97-103 on the raw input read at line 96.
ResolveInput ==
    /\ ~io.answered
    /\ io' = [io EXCEPT !.answered = TRUE,
                        !.answer = _get_user_input_console(
                                       io.menu.options,
                                       io.menu.single_char_opts, io.raw)]
    /\ UNCHANGED <<fs, pc, callVars, reference_lines, unified_diff,
                   merged_lines, response, kdiff3Locals, exc, written, result,
                   history, reconcile_tool, BOND_RECONCILE, last_saved,
                   again, peer>>

NextInput == ResolveInput

SpecInput == InitInput /\ [][NextInput]_vars

(***************************************************************************)
(* Two processes in ReconcileToolKdiff3.invoke_tool at once, for two tests *)
(* that differ, over the same directory of temp files.                     *)
(***************************************************************************)

\* The other test's lines, and what its merge leaves.
PeerCurrentLines == << <<"b">> >>
PeerReferenceLines == <<>>
PeerMergedLines == << <<"b">>, <<"b">> >>

\* The places of the other process in invoke_tool.
PeerPcs == { "write_current", "write_reference", "mode", "merge", "finally" }

\* The call of this process stands before invoke_tool of the kdiff3 tool,
\* with differences and without no_save; the other process is about to
\* enter its own.
InitConcurrent ==
    /\ fs = [p \in Paths |->
                IF p = reference_file THEN File(<<"a", "\n">>) ELSE Absent]
    /\ pc = "invoke_tool"
    /\ tool = "kdiff3"
    /\ current_lines \in { <<>>, << <<"a", "\n">>, <<"b">> >> }
    /\ no_save = None
    /\ reference_lines = readlines(fs[reference_file].content)
    /\ unified_diff = _compute_diff(reference_lines, current_lines)
    /\ merged_lines = NoLines
    /\ response = ""
    /\ k_response = ""
    /\ current_file = ""
    /\ k_reference_file = ""
    /\ merged_file = "unbound"
    /\ code = 0
    /\ ret = NoLines
    /\ exc = "none"
    /\ written = 0
    /\ result = "none"
    /\ ref0 = fs[reference_file]
    /\ invoked = {}
    /\ prompts = {}
    /\ commands = <<>>
    /\ shown = {}
    /\ interrupted = FALSE
    /\ defaulted = FALSE
    /\ io = NoIO
    /\ reconcile_tool = None
    /\ BOND_RECONCILE = None
    /\ last_saved = NoLines
    /\ again = FALSE
    /\ peer = [NoPeer EXCEPT !.pc = "start"]

\* What a step of the other process leaves alone: everything of this
\* process's call.
thisProcess ==
    <<pc, callVars, reference_lines, unified_diff, merged_lines, response,
      kdiff3Locals, exc, written, result, history, io, reconcile_tool,
      BOND_RECONCILE, last_saved, again>>

\* Lines 376-377, in the other process.
Peer_invoke_tool ==
    /\ peer.pc = "start"
    /\ \E r1 \in RandomStrings, r2 \in RandomStrings :
          peer' = [peer EXCEPT !.pc = "write_current",
                               !.current_file = _tmp_file_name(r1, "curr"),
                               !.reference_file = _tmp_file_name(r2, "ref")]
    /\ UNCHANGED <<fs, thisProcess>>

\* Lines 379-380, in the other process.
PeerWriteCurrent ==
    /\ peer.pc = "write_current"
    /\ fs' = [fs EXCEPT ![peer.current_file] =
                  File(writelines(PeerCurrentLines))]
    /\ peer' = [peer EXCEPT !.pc = "write_reference"]
    /\ UNCHANGED thisProcess

\* Lines 381-382, in the other process.
PeerWriteReference ==
    /\ peer.pc = "write_reference"
    /\ fs' = [fs EXCEPT ![peer.reference_file] =
                  File(writelines(PeerReferenceLines))]
    /\ peer' = [peer EXCEPT !.pc = "mode"]
    /\ UNCHANGED thisProcess

\* Line 402, in the other process.
PeerMode ==
    /\ peer.pc = "mode"
    /\ \E r3 \in RandomStrings :
          peer' = [peer EXCEPT !.pc = "merge",
                               !.merged_file = _tmp_file_name(r3, "merged")]
    /\ UNCHANGED <<fs, thisProcess>>

\* Lines 410-422, in the other process: its merge tool saves the merge,
\* which is read and acknowledged.
PeerMerge ==
    /\ peer.pc = "merge"
    /\ fs' = [fs EXCEPT ![peer.merged_file] =
                  File(writelines(PeerMergedLines))]
    /\ peer' = [peer EXCEPT !.pc = "finally"]
    /\ UNCHANGED thisProcess

\* Lines 423-429, in the other process.
PeerFinally ==
    /\ peer.pc = "finally"
    /\ fs' = [p \in Paths |->
                 IF p \in { peer.current_file, peer.reference_file,
                            peer.merged_file }
                 THEN Absent ELSE fs[p]]
    /\ peer' = [NoPeer EXCEPT !.pc = "end"]
    /\ UNCHANGED thisProcess

NextConcurrent ==
    \/ ReconcileToolKdiff3_invoke_tool
    \/ KWriteCurrent
    \/ KWriteReference
    \/ KMode
    \/ KMerge
    \/ KMerged
    \/ KAcknowledge
    \/ KFinally
    \/ Peer_invoke_tool
    \/ PeerWriteCurrent
    \/ PeerWriteReference
    \/ PeerMode
    \/ PeerMerge
    \/ PeerFinally

SpecConcurrent == InitConcurrent /\ [][NextConcurrent]_vars

(***************************************************************************)
(* Properties                                                              *)
(***************************************************************************)

\* The lines of the reference file when the call started: none when the
\* file was missing.
RefLines0 == IF ref0.exists THEN readlines(ref0.content) ELSE <<>>

\* The call found differences.
Differs == RefLines0 # current_lines

\* The call of reconcile is under way or has just ended.
InCall == pc \notin { "idle", "select", "fatal" }

CommitPcs == { "commit_unlink", "commit_open", "commit_write" }

KdiffPcs ==
    { "k_write_current", "k_write_reference", "k_mode", "k_ask", "k_view",
      "k_merge", "k_merged", "k_acknowledge", "k_finally" }

\* C1: when reconcile is called with a no_save that is not None, the
\* reference file after the call is the file before the call, whatever
\* the tool, the user's answers and the merge tool's exit code.
C1_SuppressedNeverSaved ==
    (pc = "done" /\ no_save # None) => fs[reference_file] = ref0

\* C2: when the reference lines and the current lines are equal (a missing
\* reference file and no current lines included), reconcile returns True,
\* enters no invoke_tool, asks the user nothing, runs no merge tool and
\* leaves the reference file as it was, for every tool and every no_save.
C2_NoDifferences ==
    (InCall /\ pc # "reconcile" /\ ~Differs) =>
        /\ pc = "done"
        /\ result = "True"
        /\ invoked = {}
        /\ prompts = {}
        /\ commands = <<>>
        /\ fs[reference_file] = ref0

\* C2's case: a call with an existing reference file equal to non-empty
\* current lines has returned, with a tool that would have rejected.
C2_Witness ==
    /\ pc = "done"
    /\ ref0.exists
    /\ current_lines # <<>>
    /\ ~Differs
    /\ tool = "abort"
    /\ result = "True"

\* C3: with the accept tool and differences, reconcile returns True; when
\* no_save is None the reference file then holds exactly current_lines
\* (also when there are none); when no_save is given the reference file is
\* unchanged.
C3_AcceptSaves ==
    (pc = "done" /\ tool = "accept" /\ Differs) =>
        /\ result = "True"
        /\ no_save = None =>
               fs[reference_file] = File(writelines(current_lines))
        /\ no_save # None => fs[reference_file] = ref0

\* C4: with the abort tool and differences, reconcile returns False, the
\* reference file stays as it was (with or without no_save), and no prompt
\* is issued and no merge tool is run.
C4_AbortRejects ==
    (InCall /\ tool = "abort") =>
        /\ fs[reference_file] = ref0
        /\ prompts = {}
        /\ commands = <<>>
        /\ (pc = "done" /\ Differs) => result = "False"

\* C4's case: the abort tool has rejected differences from an existing
\* reference file.
C4_Witness ==
    /\ pc = "done"
    /\ tool = "abort"
    /\ Differs
    /\ ref0.exists
    /\ "abort" \in invoked
    /\ result = "False"

\* C5: no temp file (current, reference, merged) exists once the kdiff3
\* tool's invoke_tool has returned or raised: after exit code 0, after a
\* nonzero exit code, after the user declined to start kdiff3, after a
\* view-only run, and after an exception from a write, a prompt or the
\* tool; as the tool selected and from the console tool's kdiff3 state.
C5_TempFilesRemoved ==
    pc \notin KdiffPcs => \A p \in TmpPaths : ~fs[p].exists

\* C5's case: the merge tool was entered from the console tool, ran in
\* merge mode, left a merged file, and invoke_tool has returned.
C5_Witness ==
    /\ pc = "returned"
    /\ tool = "console"
    /\ "kdiff3" \in invoked
    /\ Len(commands) = 1
    /\ commands[1].mode = "merge"
    /\ commands[1].merged.exists

\* The options of a menu, as a set.
OptionSet(menu) == { menu.options[i] : i \in DOMAIN menu.options }

\* The positions of a menu whose shortcut is the input.
ShortcutPositions(menu, raw) ==
    { i \in DOMAIN menu.single_char_opts : menu.single_char_opts[i] = raw }

\* C6: the console backend's answer is always one of the options: the
\* last option on empty input, the option at the shortcut's position on a
\* one-character input that is a shortcut, the option itself on an input
\* that is an option's full label, and the last option on anything else.
C6_ConsoleResolution ==
    io.answered =>
        /\ io.answer \in OptionSet(io.menu)
        /\ io.raw = "" => io.answer = Last(io.menu.options)
        /\ (Len(io.raw) = 1 /\ ShortcutPositions(io.menu, io.raw) # {}) =>
               \E i \in ShortcutPositions(io.menu, io.raw) :
                   io.answer = io.menu.options[i]
        /\ (Len(io.raw) > 1 /\ io.raw \in OptionSet(io.menu)) =>
               io.answer = io.raw
        /\ ( /\ io.raw # ""
             /\ ShortcutPositions(io.menu, io.raw) = {}
             /\ io.raw \notin OptionSet(io.menu) ) =>
               io.answer = Last(io.menu.options)

\* C6's case: an input that is neither a shortcut nor a label of the menu
\* it answers was resolved to the menu's last option.
C6_Witness ==
    /\ io.answered
    /\ io.menu = DIFF_SAVE
    /\ io.raw = "diff"
    /\ io.answer = "no"

\* C7 as claimed: at every point of the commit the reference file holds
\* the complete previous content or the complete new content.
C7_AtomicReplace ==
    pc \in CommitPcs =>
        \/ fs[reference_file] = ref0
        \/ fs[reference_file] = File(writelines(merged_lines.lines))

\* C7 as amended: the commit is delete, then rewrite.  The old file is
\* there until it is deleted; from then on the reference file is missing or
\* holds the lines written so far, a prefix of the new content and nothing
\* of the old; when the commit ends it holds exactly the new content.
C7_DeleteThenRewrite ==
    /\ pc = "commit_unlink" => fs[reference_file] = ref0
    /\ pc = "commit_open" => fs[reference_file] = Absent
    /\ pc = "commit_write" =>
           fs[reference_file] =
               File(writelines(SubSeq(merged_lines.lines, 1, written)))
    /\ (pc = "done" /\ "saving" \in shown) =>
           fs[reference_file] = File(writelines(merged_lines.lines))

\* C7's case: the old reference file is deleted and one of two new lines
\* is written.
C7_Witness ==
    /\ pc = "commit_write"
    /\ ref0.exists
    /\ ref0.content # <<>>
    /\ Len(merged_lines.lines) = 2
    /\ written = 1

\* C8: the reference file is changed only by the commit step, and only
\* after the tool returned lines with no_save not given; so when reconcile
\* returns False the reference file is unchanged.
C8_OnlyCommitWrites ==
    /\ (InCall /\ fs[reference_file] # ref0) =>
           /\ pc \in CommitPcs \cup { "done" }
           /\ merged_lines.some
           /\ no_save = None
    /\ (pc = "done" /\ result = "False") => fs[reference_file] = ref0

\* The call ran the merge tool in merge mode.
MergeRun == commands # <<>> /\ commands[1].mode = "merge"

\* C9: without no_save the kdiff3 tool runs the merge tool in merge mode,
\* once.  Exit code 0: the lines of the merged file are accepted and
\* reconcile saves them, so the reference file becomes the merged file.
\* Any other exit code: reconcile returns False, the reference file is
\* untouched and nothing is raised.  (A call interrupted at the
\* acknowledgement ends with that interrupt.)
C9_MergeMode ==
    /\ (no_save = None /\ commands # <<>>) => MergeRun
    /\ MergeRun =>
           /\ Len(commands) = 1
           /\ ~Truthy(no_save)
           /\ (pc = "returned" /\ commands[1].code = 0) =>
                  merged_lines =
                      Lines(readlines(commands[1].merged.content))
           /\ (pc = "returned" /\ commands[1].code # 0) =>
                  merged_lines = NoLines
           /\ (pc = "done" /\ ~interrupted) =>
                  IF commands[1].code = 0
                  THEN /\ result = "True"
                       /\ fs[reference_file] = commands[1].merged
                  ELSE /\ result = "False"
                       /\ exc = "none"
                       /\ fs[reference_file] = ref0

\* C9's case: a merge that ended with exit code 0 and a merged file that
\* is neither the reference nor the current content was saved.
C9_Witness ==
    /\ pc = "done"
    /\ MergeRun
    /\ commands[1].code = 0
    /\ commands[1].merged # ref0
    /\ commands[1].merged.content # writelines(current_lines)
    /\ fs[reference_file] = commands[1].merged
    /\ result = "True"

\* C10: with no_save given, the kdiff3 tool first asks a yes/no question
\* whose default is no; the merge tool runs only after the answer yes, only
\* in view mode, no merged file is named or created, and None is returned
\* for every answer and every exit code.
C10_ViewOnly ==
    (InCall /\ no_save # None /\ "kdiff3" \in invoked) =>
        /\ Last(START_KDIFF3.options) = "no"
        /\ pc \in { "k_view", "k_merge" } => START_KDIFF3 \in prompts
        /\ commands # <<>> =>
               /\ k_response = "yes"
               /\ commands[1].mode = "view"
               /\ Len(commands) = 1
        /\ merged_file \in { "unbound", None }
        /\ \A r \in RandomStrings :
               ~fs[_tmp_file_name(r, "merged")].exists
        /\ pc = "returned" => merged_lines = NoLines

\* The menus of the console tool's loop.
ConsoleMenus ==
    { OBSERVATIONS_NO_SAVE, OBSERVATIONS_SAVE, DIFF_NO_SAVE, DIFF_SAVE,
      ERRORS }

\* The console tool's loop has been entered and no prompt has been shown.
AtFirstPrompt == pc = "console" /\ prompts = {}

\* The console tool's first prompt is the only prompt so far.
AfterFirstPrompt ==
    /\ InCall
    /\ "console" \in invoked
    /\ Cardinality(prompts) = 1

StateOptions(state, suppressed) ==
    CASE state = "observations" ->
             IF suppressed THEN { "kdiff3", "diff", "errors", "continue" }
                           ELSE { "kdiff3", "diff", "yes", "no" }
      [] state = "diff" ->
             IF suppressed
             THEN { "kdiff3", "observations", "errors", "continue" }
             ELSE { "kdiff3", "observations", "yes", "no" }
      [] state = "errors" ->
             { "kdiff3", "observations", "diff", "continue" }
      [] OTHER -> {}

\* One step of the loop under the table: the state left is one that
\* prompts, the menu it offers and the state entered are the table's.
TableStep(suppressed) ==
    /\ (pc = "console" /\ pc' = "console" /\ response' # response) =>
           /\ response' \in StateOptions(response, suppressed)
           /\ \A menu \in prompts' \ prompts :
                  OptionSet(menu) = StateOptions(response, suppressed)
    /\ (pc' = "console" /\ suppressed) => response' # "yes"
    /\ (pc' = "console" /\ ~suppressed) =>
           response' \notin { "errors", "continue" }

\* C12: every transition of the console tool's loop is one of the table:
\* from observations to kdiff3, diff, yes, no when saving is allowed and
\* to kdiff3, diff, errors, continue when no_save is given; from diff to
\* kdiff3, observations, yes, no and to kdiff3, observations, errors,
\* continue; from errors to kdiff3, observations, diff, continue.  So yes
\* is never entered when no_save is given, and errors and continue are
\* never entered when it is not.
C12_TransitionTable == [][TableStep(no_save # None)]_vars

\* The states of the loop that end it.
TerminalStates == { "kdiff3", "yes", "no", "continue" }

\* One step of the console tool from or after a terminal state.
TerminalStep ==
    /\ (pc = "console" /\ response = "yes") =>
           /\ pc' = "returned"
           /\ merged_lines' = Lines(current_lines)
           /\ current_lines' = current_lines
    /\ (pc = "console" /\ response \in { "no", "continue" }) =>
           /\ pc' = "returned"
           /\ merged_lines' = NoLines
    /\ (pc = "console" /\ response = "kdiff3") =>
           /\ pc' = "k_write_current"
           /\ "kdiff3" \notin invoked
           /\ "kdiff3" \in invoked'
           /\ UNCHANGED <<current_lines, reference_lines, no_save,
                          unified_diff>>
    /\ ("console" \in invoked /\ pc' \in { "k_mode", "k_ask", "k_merge" }) =>
           /\ fs'[current_file'] = File(writelines(current_lines))
           /\ fs'[k_reference_file'] = File(writelines(reference_lines))
           /\ pc' = "k_ask" => Truthy(no_save)
           /\ pc' = "k_merge" => ~Truthy(no_save)
    /\ ("console" \in invoked /\ pc = "k_finally" /\ pc' = "returned") =>
           merged_lines' = ret
    /\ ( /\ "console" \in invoked
         /\ response \in TerminalStates
         /\ pc' # "idle" ) =>
           /\ response' = response
           /\ (prompts' \ prompts) \cap ConsoleMenus = {}
           /\ pc' # "console"

\* C13: the console tool's terminal states end the loop with no further
\* prompt of its menus: yes returns current_lines as they are, no and
\* continue return None, and kdiff3 enters the kdiff3 tool once, with the
\* same reference lines, current lines and no_save, and returns what it
\* returns.
C13_TerminalStates == [][TerminalStep]_vars

\* C13's case: the dialog tool's user chose kdiff3, the merge ended with
\* exit code 0, and the console tool returned the merged lines.
C13_Witness ==
    /\ pc = "returned"
    /\ tool = "dialog"
    /\ response = "kdiff3"
    /\ MergeRun
    /\ commands[1].code = 0
    /\ merged_lines.some
    /\ merged_lines.lines # current_lines

\* The reference file is being replaced, or has been, in this call.
Replacing ==
    \/ pc \in CommitPcs
    \/ InCall /\ fs[reference_file] # ref0
    \/ pc = "done" /\ "saving" \in shown

\* The messages that tell the decision to accept.
AcceptNotices == { "accepting", "merge_successful" }

\* C14 as claimed: whenever the reference file is deleted or rewritten,
\* the unified diff and the decision to accept were shown to the user
\* earlier in the same call, whatever the tool.
C14_DiffShownBeforeReplace ==
    Replacing =>
        /\ "diff" \in shown
        /\ shown \cap AcceptNotices # {}

\* C14 as amended: whenever the reference file is deleted or rewritten,
\* the decision to accept and the notice of saving were shown earlier in
\* the same call, and so were the differences: as the unified diff with
\* the accept, console and dialog tools, and with the kdiff3 tool selected
\* directly by the merge tool itself, which ran in merge mode on copies of
\* the reference lines and the current lines and ended with exit code 0.
\* The kdiff3 tool prints no unified diff.
C14_DifferencesShown ==
    /\ Replacing =>
           /\ shown \cap AcceptNotices # {}
           /\ "saving" \in shown
           /\ IF tool = "kdiff3"
              THEN /\ "diff" \notin shown
                   /\ MergeRun
                   /\ commands[1].code = 0
              ELSE "diff" \in shown
    /\ pc = "k_merge" =>
           /\ fs[current_file] = File(writelines(current_lines))
           /\ fs[k_reference_file] = File(writelines(reference_lines))

\* C14's case: the kdiff3 tool's merge is about to replace an existing
\* reference file and no unified diff was printed.
C14_Witness ==
    /\ pc = "commit_unlink"
    /\ tool = "kdiff3"
    /\ ref0.exists
    /\ "diff" \notin shown
    /\ "merge_successful" \in shown

\* What the claim of C15 says of a call that found no reference file,
\* with saving suppressed or not.
MissingReference(suppressed) ==
    (InCall /\ pc # "reconcile" /\ ~ref0.exists) =>
        /\ "warning" \in shown
        /\ reference_lines = <<>>
        /\ unified_diff = _compute_diff(<<>>, current_lines)
        /\ (pc = "done" /\ ~interrupted) => result \in { "True", "False" }
        /\ (pc = "done" /\ merged_lines.some /\ ~suppressed) =>
               fs[reference_file] = File(writelines(merged_lines.lines))
        /\ (pc = "done" /\ (~merged_lines.some \/ suppressed)) =>
               fs[reference_file] = Absent

\* C15: a missing reference file is no error: reconcile prints a warning,
\* takes the reference lines to be none and goes on; when the tool returns
\* lines and no_save is not given the reference file is created with those
\* lines, and when the tool returns None or no_save is given the reference
\* file stays missing.
C15_MissingReference == MissingReference(no_save # None)

\* A line as readlines gives it: not empty, no newline but at its end.
IsLine(l) == l # <<>> /\ \A i \in 1..(Len(l) - 1) : l[i] # "\n"

\* A list of lines as readlines gives it: every line but the last ends
\* with a newline.
AreLines(lines) ==
    \A i \in DOMAIN lines :
        /\ IsLine(lines[i])
        /\ i < Len(lines) => lines[i][Len(lines[i])] = "\n"

\* The call found no differences and reconcile returned True right away.
NothingToReconcile ==
    /\ pc = "done"
    /\ result = "True"
    /\ unified_diff = <<>>
    /\ invoked = {}
    /\ prompts = {}
    /\ commands = <<>>
    /\ fs[reference_file] = ref0

\* C16 as claimed: when the call before saved the lines A as the
\* reference file and this call is given A as current lines, it finds no
\* differences, returns True, enters no invoke_tool and leaves the
\* reference file as it is, whatever the tool and for every A.
C16_RoundTrip ==
    (InCall /\ pc # "reconcile" /\ again) => NothingToReconcile

\* C16 as amended: the same, for every A that is a list of lines as
\* readlines gives them (no line empty, no newline inside a line, every
\* line but the last ended by a newline).  For any other A the file
\* written reads back as other lines, the diff is not empty and the tool
\* is invoked.
C16_RoundTripOfLines ==
    (InCall /\ pc # "reconcile" /\ again) =>
        /\ ref0 = File(writelines(current_lines))
        /\ IF AreLines(current_lines)
           THEN NothingToReconcile
           ELSE /\ unified_diff # <<>>
                /\ reference_lines # current_lines
                /\ pc = "invoke_tool" \/ invoked # {}

\* C16's case: two terminated lines were saved by the call before and are
\* given again, to a tool that would reject any difference.
C16_Witness ==
    /\ pc = "done"
    /\ again
    /\ tool = "abort"
    /\ Len(current_lines) = 2
    /\ AreLines(current_lines)
    /\ result = "True"

\* The name select goes by: the setting, or for no setting the
\* environment variable, or for neither "console".
NameSelected ==
    IF reconcile_tool # None THEN reconcile_tool
    ELSE IF BOND_RECONCILE # None THEN BOND_RECONCILE
    ELSE "console"

\* One step at the selection of the tool.
SelectStep ==
    /\ pc = "select" =>
           IF NameSelected \in ToolNames
           THEN pc' = "reconcile" /\ tool' = NameSelected
           ELSE pc' = "fatal"
    /\ pc' = "fatal" =>
           /\ pc = "select"
           /\ result' = "raised"
           /\ exc' = "AssertionError"
           /\ fs' = fs
           /\ fs'[reference_file] = ref0'
           /\ reference_lines' = <<>>
           /\ shown' = {}
           /\ prompts' = {}
           /\ invoked' = {}
           /\ commands' = <<>>
    /\ pc = "fatal" => (pc' = "idle" /\ fs' = fs)

\* C17: select maps each tool's name to that tool; with no name given it
\* goes by the environment variable, and by console when that is not set
\* either; any other name, given or in the environment, fails the
\* assertion before the reference file is read or changed and before any
\* message or prompt.
C17_Selection == [][SelectStep]_vars

\* C17's case: no name was given and the environment names no tool.
C17_Witness ==
    /\ pc = "fatal"
    /\ reconcile_tool = None
    /\ BOND_RECONCILE = "meld"
    /\ ref0.exists
    /\ exc = "AssertionError"

\* The temp files of this process and of the other one.
TempFiles ==
    { current_file, k_reference_file, merged_file } \cap TmpPaths
PeerTempFiles ==
    { peer.current_file, peer.reference_file, peer.merged_file }
    \cap TmpPaths

\* C18: two processes in the kdiff3 tool's invoke_tool at once never have
\* a temp file path in common, so the files one has written are as it
\* wrote them until it deletes them itself; and the current, reference
\* and merged files of one process have three different paths.
C18_DistinctTempPaths ==
    /\ (pc \in KdiffPcs /\ peer.pc \in PeerPcs) =>
           TempFiles \cap PeerTempFiles = {}
    /\ pc \in { "k_write_reference", "k_mode", "k_merge", "k_merged",
                "k_acknowledge" } =>
           fs[current_file] = File(writelines(current_lines))
    /\ pc \in { "k_mode", "k_merge", "k_merged", "k_acknowledge" } =>
           fs[k_reference_file] = File(writelines(reference_lines))
    /\ pc \in { "k_merged", "k_acknowledge" } =>
           fs[merged_file] = commands[1].merged
    /\ pc \in KdiffPcs \ { "k_write_current" } =>
           /\ current_file # k_reference_file
           /\ merged_file \notin { current_file, k_reference_file }

\* The status message of a merge that ended with exit code c.
StatusShown(c) ==
    IF c = 0
    THEN "merge_successful" \in shown /\ "merge_unsuccessful" \notin shown
    ELSE "merge_unsuccessful" \in shown /\ "merge_successful" \notin shown

\* The temp files of the merge are all there, as written.
TempFilesKept ==
    /\ fs[current_file] = File(writelines(current_lines))
    /\ fs[k_reference_file] = File(writelines(reference_lines))
    /\ fs[merged_file] = commands[1].merged

\* One step of the kdiff3 tool around the acknowledgement.
AcknowledgeStep ==
    /\ pc' = "k_acknowledge" =>
           /\ MergeRun'
           /\ ACKNOWLEDGE \notin prompts'
           /\ StatusShown(code)'
           /\ TempFilesKept'
    /\ pc = "k_acknowledge" =>
           /\ pc' = "k_finally"
           /\ ACKNOWLEDGE \in prompts'
           /\ OptionSet(ACKNOWLEDGE) = { "continue" }
           /\ fs' = fs
           /\ ret' = ret
    /\ ACKNOWLEDGE \in prompts' \ prompts => pc = "k_acknowledge"
    /\ (MergeRun /\ ~interrupted /\ pc = "k_finally") =>
           ACKNOWLEDGE \in prompts
    /\ (\E p \in TmpPaths : fs[p].exists /\ ~fs'[p].exists) =>
           pc = "k_finally"
    /\ (MergeRun /\ pc' = "returned") =>
           /\ ACKNOWLEDGE \in prompts'
           /\ merged_lines' =
                  IF commands[1].code = 0
                  THEN Lines(readlines(commands[1].merged.content))
                  ELSE NoLines

\* C19: in merge mode, when the merge tool has ended, with any exit code,
\* the kdiff3 tool asks once a prompt whose only option is continue, after
\* the status message that says whether the merge succeeded; what it
\* returns is set before the prompt and is the same for every answer; and
\* the temp files are there until the prompt is answered and are deleted
\* only after it.
C19_Acknowledgement == [][AcknowledgeStep]_vars

\* C19's case: a merge that failed was acknowledged and its temp files
\* are about to be deleted.
C19_Witness ==
    /\ pc = "k_finally"
    /\ MergeRun
    /\ commands[1].code # 0
    /\ ~interrupted
    /\ ACKNOWLEDGE \in prompts
    /\ fs[current_file].exists
    /\ fs[merged_file].exists

\* The states the console tool's loop names.
NamedStates ==
    { "observations", "diff", "errors", "kdiff3", "yes", "no", "continue" }

\* C20: the state of the console tool's loop is always one of
\* observations, diff, errors, kdiff3, yes, no, continue, for every
\* no_save and every sequence of inputs, so the assertion 'Unknown input
\* received!' never fails.
C20_NamedStates ==
    "console" \in invoked =>
        /\ response \in NamedStates
        /\ exc # "AssertionError"
        /\ \A menu \in prompts \cap ConsoleMenus :
               OptionSet(menu) \subseteq NamedStates

\* C20's case: under a reason the user went through the three states that
\* prompt and ended the loop with continue.
C20_Witness ==
    /\ pc = "returned"
    /\ tool = "console"
    /\ { OBSERVATIONS_NO_SAVE, DIFF_NO_SAVE, ERRORS } \subseteq prompts
    /\ response = "continue"

\* The prompts that offer a choice: the menus of the console tool's loop
\* and the question before a view-only run of the merge tool.
ChoicePrompts == ConsoleMenus \cup { START_KDIFF3 }

\* The options that end a tool with None.
Rejecting == { "no", "continue" }

\* C21: the last option of every menu of the console tool's loop, and of
\* the question before a view-only run, is no or continue; when the last
\* of these prompts was answered by an empty or unrecognised input the
\* answer is that option, the tool returns None without a run of the merge
\* tool, reconcile returns False and the reference file is as it was.
C21_DefaultRejects ==
    /\ \A menu \in prompts \cap ChoicePrompts :
           Last(menu.options) \in Rejecting
    /\ (InCall /\ defaulted) =>
           /\ prompts \cap ChoicePrompts # {}
           /\ "kdiff3" \notin invoked => response \in Rejecting
           /\ "kdiff3" \in invoked => k_response = "no"
           /\ commands = <<>>
           /\ pc \notin CommitPcs
           /\ pc = "returned" => merged_lines = NoLines
           /\ pc = "done" => result = "False"
           /\ fs[reference_file] = ref0

\* C21's case: without a reason the console tool's user went from the diff
\* to the observations and answered that menu with an input that is no
\* option; reconcile returned False.
C21_Witness ==
    /\ pc = "done"
    /\ tool = "console"
    /\ no_save = None
    /\ prompts = { DIFF_SAVE, OBSERVATIONS_SAVE }
    /\ response = "no"
    /\ defaulted
    /\ result = "False"

\* The tools that ask the user or run the merge tool.
AskingTools == { "console", "dialog", "kdiff3" }

\* What the claim of C22 says of a call that found differences, with
\* saving suppressed or not.
SuppressedRejects(suppressed) ==
    (InCall /\ suppressed /\ Differs) =>
        /\ (pc = "returned" /\ tool \in AskingTools) =>
               merged_lines = NoLines
        /\ (pc = "done" /\ tool \in AskingTools /\ ~interrupted) =>
               result = "False"
        /\ (pc = "done" /\ result = "True") => tool = "accept"
        /\ (pc = "done" /\ tool = "accept") => result = "True"

\* C22: when no_save is given and there are differences, the console, the
\* dialog and the kdiff3 tool return None for every sequence of answers and
\* every exit code of the merge tool, so reconcile returns False; the
\* accept tool is the only one with which reconcile returns True.
C22_SuppressedRejects == SuppressedRejects(no_save # None)

====
